---- MODULE Spec2Model ----
(***************************************************************************)
(* Model of retis-collect-nodes.py: main() reads the node list from the    *)
(* env-overrides ConfigMap and runs a per-node action (run_retis_on_node   *)
(* or, with --stop, stop_retis_on_node) on every node, sequentially or on  *)
(* a ThreadPoolExecutor, and prints a summary.                             *)
(* Model of openshift-ovn-kubernetes-log-debug.py: main() writes that      *)
(* ConfigMap for the selected nodes (apply) or deletes it (--revert), and  *)
(* optionally restarts the ovnkube-node pods.                              *)
(***************************************************************************)
EXTENDS Integers, Sequences, FiniteSets, TLC

\* Largest number of worker nodes the ConfigMap names (specification Spec).
MaxNodes == 4
\* Largest number of worker nodes the ConfigMap names (specification SpecPool).
PoolNodes == 6
\* ThreadPoolExecutor(max_workers=min(len(nodes), 5)).
MaxWorkers == 5

VARIABLES
    configmap,            \* what read_namespaced_config_map answers
    args,                 \* the parsed command line: stop, parallel, dry_run
    pc,                   \* main()'s position
    nodes,                \* main()'s list `nodes`
    local_script_path,    \* "None", "tmp" (a mkstemp path) or "dummy"
    i,                    \* index of the running for loop (1-based)
    setup_success_count,
    setup_failed_nodes,
    success_count,
    max_workers,          \* the executor's max_workers (0: no executor)
    fut,                  \* per node: its call or future
    result,               \* per node: what its action returned
    injected,             \* per node: the exception its remote call raised
    invoked,              \* per node: how often its action was invoked
    out,                  \* progress lines printed and calls made, in order
    summary,              \* the summary block printed
    effects               \* kinds of side effect executed so far

\* openshift-ovn-kubernetes-log-debug.py
VARIABLES
    ld_args,              \* its command line: revert, all_nodes, restart_pods, dry_run
    ld_pc,                \* its main()'s position
    ld_nodes,             \* main()'s list `nodes`
    affected_nodes,       \* revert_debug_logging's list
    pods_to_restart,      \* restart_ovnkube_pods' list
    ld_i,                 \* index of the pod deletion loop (1-based)
    api_calls             \* the API calls issued, in order, with their answers

\* A function called on one input.
VARIABLES
    probe

logVars == <<ld_args, ld_pc, ld_nodes, affected_nodes, pods_to_restart, ld_i, api_calls>>

retisVars == <<args, pc, nodes, local_script_path, i, setup_success_count,
               setup_failed_nodes, success_count, max_workers, fut, result, injected,
               invoked, out, summary, effects>>

\* What an action of retis-collect-nodes.py leaves alone.
otherVars == <<logVars, probe>>

vars == <<configmap, args, pc, nodes, local_script_path, i, setup_success_count,
          setup_failed_nodes, success_count, max_workers, fut, result, injected,
          invoked, out, summary, effects, logVars, probe>>

----------------------------------------------------------------------------
\* Helpers

Min(a, b) == IF a <= b THEN a ELSE b

NodeName(k) == "worker-" \o ToString(k)

Names(max) == {NodeName(k) : k \in 1..max}

AllNames == Names(IF MaxNodes >= PoolNodes THEN MaxNodes ELSE PoolNodes)

\* k worker names, highest first (the key order of the ConfigMap's data).
Desc(k) == [j \in 1..k |-> NodeName(k + 1 - j)]

Range(s) == {s[j] : j \in 1..Len(s)}

\* The answers of the API server: 404, another ApiException, or the
\* ConfigMap, whose data (<<>> stands for None or {}) holds the node keys
\* and possibly the reserved key _master.
ConfigMaps(lo, hi) ==
    {[status |-> "404", data |-> <<>>], [status |-> "500", data |-> <<>>]}
    \cup {[status |-> "200", data |-> d] :
            d \in UNION {{Desc(k), <<"_master">> \o Desc(k), Desc(k) \o <<"_master">>}
                           : k \in lo..hi}}

----------------------------------------------------------------------------
\* The functions of retis-collect-nodes.py

\* get_nodes_from_configmap treating _master as one more node.
get_nodes_from_configmap_all_keys(cm) ==
    IF cm.status = "404" THEN <<>> ELSE cm.data

\* get_nodes_from_configmap: [] on 404, else the keys other than _master.
get_nodes_from_configmap(cm) ==
    IF cm.status = "404"
    THEN <<>>
    ELSE SelectSeq(cm.data, LAMBDA key : key # "_master")

\* The exception classes the except clauses tell apart, as recorded per node
\* (FileNotFoundError is an Exception).
ExcClass(e) ==
    IF e = "none" THEN "none"
    ELSE IF e = "TimeoutExpired" THEN "TimeoutExpired"
    ELSE "Exception"

Exceptions == {"none", "TimeoutExpired", "FileNotFoundError", "Exception"}

\* What the remote commands of setup_script_on_node do.
SetupRuns ==
    [check : {"executable", "not_executable", "absent"},
     mkdir_rc : {0, 1}, pod_found : BOOLEAN, copy_rc : {0, 1},
     chmod_rc : {0, 1}, verify_rc : {0, 1},
     exc : {"none", "TimeoutExpired", "Exception"}]

\* setup_script_on_node running its commands under --dry-run too.
setup_script_on_node_no_dry_run(s, dry_run) ==
    IF s.exc = "none" /\ s.check = "executable"
    THEN [ret |-> "True", ran |-> TRUE]
    ELSE [ret |-> "False", ran |-> TRUE]

\* setup_script_on_node: ret is its return value, ran whether it ran a
\* subprocess.
setup_script_on_node(s, dry_run) ==
    IF dry_run THEN [ret |-> "True", ran |-> FALSE]
    ELSE IF s.exc # "none" THEN [ret |-> "False", ran |-> TRUE]
    ELSE IF s.check = "executable" THEN [ret |-> "True", ran |-> TRUE]
    ELSE IF s.check = "absent" /\ ~s.pod_found THEN [ret |-> "False", ran |-> TRUE]
    ELSE IF s.check = "absent" /\ s.copy_rc # 0 THEN [ret |-> "False", ran |-> TRUE]
    ELSE IF s.chmod_rc # 0 THEN [ret |-> "False", ran |-> TRUE]
    ELSE IF s.verify_rc = 0 THEN [ret |-> "True", ran |-> TRUE]
    ELSE [ret |-> "False", ran |-> TRUE]

\* What the remote command of stop_retis_on_node does.
StopRuns == [rc : {0, 1}, exc : Exceptions]

\* stop_retis_on_node without its except clauses: the exception leaves it.
stop_except_missing(e) == "Raise"

\* The except clauses of stop_retis_on_node: every Exception returns False.
stop_except(e) == "False"

\* stop_retis_on_node
stop_retis_on_node(r, dry_run) ==
    IF dry_run THEN [ret |-> "True", ran |-> FALSE, exc |-> "none"]
    ELSE IF r.exc # "none"
    THEN [ret |-> stop_except(r.exc), ran |-> TRUE, exc |-> ExcClass(r.exc)]
    ELSE IF r.rc # 0 THEN [ret |-> "False", ran |-> TRUE, exc |-> "none"]
    ELSE [ret |-> "True", ran |-> TRUE, exc |-> "none"]

\* The lowercased stdout of `systemctl status RETIS`, by the substrings the
\* code looks for.  "active: failed" contains "failed", and
\* "code=exited, status=0" contains "exited".
StatusOutputs ==
    {st \in [active_failed : BOOLEAN, failed : BOOLEAN, active_active : BOOLEAN,
             active_inactive : BOOLEAN, exited : BOOLEAN, status0 : BOOLEAN] :
        /\ st.active_failed => st.failed
        /\ st.status0 => st.exited}

unit_failed(st) ==
    IF st.active_failed \/ st.failed THEN TRUE
    ELSE IF st.active_active THEN FALSE
    ELSE IF st.active_inactive /\ st.exited THEN ~st.status0
    ELSE FALSE

unit_status(st) ==
    IF st.active_failed \/ st.failed THEN "failed"
    ELSE IF st.active_active THEN "running"
    ELSE IF st.active_inactive /\ st.exited
    THEN IF st.status0 THEN "completed successfully" ELSE "completed with errors"
    ELSE "unknown"

\* What the remote commands of run_retis_on_node do.
\* exc is raised by the collection command or, if that exits 0, by the
\* status check (exc_at).
RetisRuns ==
    [rc : {0, 1}, status : StatusOutputs, exc : Exceptions,
     exc_at : {"collect", "status"}]

\* run_retis_on_node without its except subprocess.TimeoutExpired clause
\* (and with handlers that do not catch it): a timeout leaves the action.
run_except_timeout_missing(e) == IF e = "TimeoutExpired" THEN "Raise" ELSE "False"

\* run_retis_on_node without its except clauses: the exception leaves it.
run_except_missing(e) == "Raise"

\* The except clauses of run_retis_on_node: every Exception returns False.
run_except(e) == "False"

\* What run_retis_on_node returns once the status check has answered.
status_verdict(st) ==
    IF unit_failed(st) THEN "False"
    ELSE IF unit_status(st) \in {"running", "completed successfully"} THEN "True"
    ELSE "False"

RunOutcome(ret, ran, exc, checked) ==
    [ret |-> ret, ran |-> ran, exc |-> exc, status_checked |-> checked]

\* run_retis_on_node treating an unclear unit status as success.
run_retis_on_node_unclear_ok(r, dry_run) ==
    IF dry_run THEN RunOutcome("True", FALSE, "none", FALSE)
    ELSE IF r.exc # "none" /\ r.exc_at = "collect"
    THEN RunOutcome(run_except(r.exc), TRUE, ExcClass(r.exc), FALSE)
    ELSE IF r.rc # 0 THEN RunOutcome("False", TRUE, "none", FALSE)
    ELSE IF r.exc # "none"
    THEN RunOutcome(run_except(r.exc), TRUE, ExcClass(r.exc), TRUE)
    ELSE IF unit_failed(r.status) THEN RunOutcome("False", TRUE, "none", TRUE)
    ELSE RunOutcome("True", TRUE, "none", TRUE)

\* run_retis_on_node: ret is its return value, ran whether it ran a
\* subprocess, exc the exception it caught, status_checked whether it
\* issued the status check.
run_retis_on_node(r, dry_run) ==
    IF dry_run THEN RunOutcome("True", FALSE, "none", FALSE)
    ELSE IF r.exc # "none" /\ r.exc_at = "collect"
    THEN RunOutcome(run_except(r.exc), TRUE, ExcClass(r.exc), FALSE)
    ELSE IF r.rc # 0 THEN RunOutcome("False", TRUE, "none", FALSE)
    ELSE IF r.exc # "none"
    THEN RunOutcome(run_except(r.exc), TRUE, ExcClass(r.exc), TRUE)
    ELSE RunOutcome(status_verdict(r.status), TRUE, "none", TRUE)

\* The per-node action of a flow: stop_retis_on_node with --stop, else
\* run_retis_on_node.
Action(stop, r, dry_run) ==
    IF stop THEN stop_retis_on_node(r, dry_run) ELSE run_retis_on_node(r, dry_run)

\* What one call of the action can do, over the behaviours runs of its
\* remote calls, by flow and by dry_run.
OutcomesOver(stopRuns, retisRuns) ==
    [stop \in BOOLEAN, dry_run \in BOOLEAN |->
        {Action(stop, r, dry_run) : r \in IF stop THEN stopRuns ELSE retisRuns}]

AllOutcomes == OutcomesOver(StopRuns, RetisRuns)

ActionOutcomes == AllOutcomes[args.stop, args.dry_run]

\* What one call of setup_script_on_node can do, by dry_run.
AllSetupOutcomes ==
    [dry_run \in BOOLEAN |-> {setup_script_on_node(s, dry_run) : s \in SetupRuns}]

SetupOutcomes == AllSetupOutcomes[args.dry_run]

----------------------------------------------------------------------------
\* main()

Event(ev, idx, node) == [ev |-> ev, idx |-> idx, node |-> node]

NoSummary == [printed |-> FALSE, total |-> 0, succeeded |-> 0, failed |-> 0]

\* openshift-ovn-kubernetes-log-debug.py is not run.
LogIdle ==
    /\ ld_args = [revert |-> FALSE, all_nodes |-> FALSE, restart_pods |-> FALSE,
                  dry_run |-> FALSE]
    /\ ld_pc = "idle"
    /\ ld_nodes = <<>>
    /\ affected_nodes = <<>>
    /\ pods_to_restart = <<>>
    /\ ld_i = 0
    /\ api_calls = <<>>

\* No function is probed.
NoProbe == [done |-> TRUE, dry_run |-> TRUE, input |-> "none", output |-> "none"]

\* The state of retis-collect-nodes.py when main() starts.
RetisInit(cms, argsets) ==
    /\ configmap \in cms
    /\ args \in argsets
    /\ pc = "start"
    /\ nodes = <<>>
    /\ local_script_path = "None"
    /\ i = 0
    /\ setup_success_count = 0
    /\ setup_failed_nodes = <<>>
    /\ success_count = 0
    /\ max_workers = 0
    /\ fut = [n \in AllNames |-> "none"]
    /\ result = [n \in AllNames |-> "none"]
    /\ injected = [n \in AllNames |-> "none"]
    /\ invoked = [n \in AllNames |-> 0]
    /\ out = <<>>
    /\ summary = NoSummary
    /\ effects = {}

InitWith(cms, argsets) ==
    /\ RetisInit(cms, argsets)
    /\ LogIdle
    /\ probe = NoProbe

Init ==
    InitWith(ConfigMaps(0, MaxNodes),
             [stop : BOOLEAN, parallel : BOOLEAN, dry_run : BOOLEAN])

\* nodes = get_nodes_from_configmap(...); if not nodes: return
ReadConfigMap ==
    /\ pc = "start"
    /\ IF configmap.status = "500"
       THEN /\ pc' = "raised"
            /\ UNCHANGED nodes
       ELSE /\ nodes' = get_nodes_from_configmap(configmap)
            /\ pc' = IF nodes' = <<>> THEN "exit_no_nodes"
                     ELSE IF args.stop THEN "dispatch" ELSE "download"
    /\ UNCHANGED <<otherVars, configmap, args, local_script_path, i, setup_success_count,
                   setup_failed_nodes, success_count, max_workers, fut, result,
                   injected, invoked, out, summary, effects>>

\* download_retis_script_locally() unless dry_run; d is what it returns.
Download(d) ==
    /\ pc = "download"
    /\ IF args.dry_run
       THEN /\ local_script_path' = "dummy"
            /\ pc' = "setup"
            /\ UNCHANGED effects
       ELSE /\ local_script_path' = d
            /\ effects' = effects \cup {"download"}
            /\ pc' = IF d = "None" THEN "exit_download_failed" ELSE "setup"
    /\ i' = 1
    /\ UNCHANGED <<otherVars, configmap, args, nodes, setup_success_count, setup_failed_nodes,
                   success_count, max_workers, fut, result, injected, invoked, out,
                   summary>>

\* for i, node in enumerate(nodes, 1): the next index.
EnumerateNext(k) == k + 1

\* One iteration of the setup loop; r is what setup_script_on_node did.
SetupNode(r) ==
    /\ pc = "setup"
    /\ i <= Len(nodes)
    /\ IF r.ret = "True"
       THEN /\ setup_success_count' = setup_success_count + 1
            /\ UNCHANGED setup_failed_nodes
       ELSE /\ setup_failed_nodes' = Append(setup_failed_nodes, nodes[i])
            /\ UNCHANGED setup_success_count
    /\ effects' = IF r.ran THEN effects \cup {"subprocess"} ELSE effects
    /\ out' = Append(out, Event("setup", i, nodes[i]))
    /\ i' = EnumerateNext(i)
    /\ UNCHANGED <<otherVars, configmap, args, pc, nodes, local_script_path, success_count,
                   max_workers, fut, result, injected, invoked, summary>>

\* The collection going on with every node, also those whose setup failed.
RemoveFailed_keep_all(ns, failed) == ns

\* nodes = [node for node in nodes if node not in setup_failed_nodes]
RemoveFailed(ns, failed) == SelectSeq(ns, LAMBDA n : n \notin Range(failed))

\* After the setup loop: drop the nodes whose setup failed.
SetupDone ==
    /\ pc = "setup"
    /\ i > Len(nodes)
    /\ IF setup_failed_nodes # <<>> /\ ~args.dry_run
       THEN /\ nodes' = RemoveFailed(nodes, setup_failed_nodes)
            /\ pc' = IF nodes' = <<>> THEN "finally_exit" ELSE "dispatch"
       ELSE /\ pc' = "dispatch"
            /\ UNCHANGED nodes
    /\ UNCHANGED <<otherVars, configmap, args, local_script_path, i, setup_success_count,
                   setup_failed_nodes, success_count, max_workers, fut, result,
                   injected, invoked, out, summary, effects>>

\* A pool with one worker per node.
PoolSize_per_node(ns) == Len(ns)

\* max_workers=min(len(nodes), 5)
PoolSize(ns) == Min(Len(ns), MaxWorkers)

\* Entering the parallel or the sequential branch.
Dispatch ==
    /\ pc = "dispatch"
    /\ success_count' = 0
    /\ i' = 1
    /\ IF args.parallel
       THEN /\ max_workers' = PoolSize(nodes)
            /\ pc' = "submit"
       ELSE /\ pc' = "seq"
            /\ UNCHANGED max_workers
    /\ UNCHANGED <<otherVars, configmap, args, nodes, local_script_path, setup_success_count,
                   setup_failed_nodes, fut, result, injected, invoked, out, summary,
                   effects>>

\* executor.submit(..., node) for the next node of the dict comprehension.
Submit ==
    /\ pc = "submit"
    /\ i <= Len(nodes)
    /\ fut' = [fut EXCEPT ![nodes[i]] = "pending"]
    /\ i' = EnumerateNext(i)
    /\ pc' = IF i' > Len(nodes) THEN "as_completed" ELSE "submit"
    /\ UNCHANGED <<otherVars, configmap, args, nodes, local_script_path, setup_success_count,
                   setup_failed_nodes, success_count, max_workers, result, injected,
                   invoked, out, summary, effects>>

InFlight == {n \in Range(nodes) : fut[n] = "running"}

Pending == {j \in 1..Len(nodes) : fut[nodes[j]] = "pending"}

\* A worker thread takes the oldest work item and calls the action.
WorkerStart ==
    /\ pc \in {"submit", "as_completed"}
    /\ Pending # {}
    /\ Cardinality(InFlight) < max_workers
    /\ LET j == CHOOSE k \in Pending : \A m \in Pending : k <= m
           n == nodes[j]
       IN /\ fut' = [fut EXCEPT ![n] = "running"]
          /\ invoked' = [invoked EXCEPT ![n] = @ + 1]
          /\ out' = Append(out, Event("call", j, n))
    /\ UNCHANGED <<otherVars, configmap, args, pc, nodes, local_script_path, i,
                   setup_success_count, setup_failed_nodes, success_count,
                   max_workers, result, injected, summary, effects>>

\* The action returns (or raises) on its worker thread; a is what it did.
WorkerFinish(n, a) ==
    /\ args.parallel
    /\ fut[n] = "running"
    /\ result' = [result EXCEPT ![n] = a.ret]
    /\ injected' = [injected EXCEPT ![n] = a.exc]
    /\ effects' = IF a.ran THEN effects \cup {"subprocess"} ELSE effects
    /\ fut' = [fut EXCEPT ![n] = "finished"]
    /\ UNCHANGED <<otherVars, configmap, args, pc, nodes, local_script_path, i,
                   setup_success_count, setup_failed_nodes, success_count,
                   max_workers, invoked, out, summary>>

\* Counting every completed future, whatever it returned.
Count_every_result(count, ret) == count + 1

\* success = ...; if success: success_count += 1
Count(count, ret) == IF ret = "True" THEN count + 1 ELSE count

\* One iteration of the as_completed loop, on the main thread.
Collect(n) ==
    /\ pc = "as_completed"
    /\ fut[n] = "finished"
    /\ fut' = [fut EXCEPT ![n] = "collected"]
    /\ success_count' = Count(success_count, result[n])
    /\ UNCHANGED <<otherVars, configmap, args, pc, nodes, local_script_path, i,
                   setup_success_count, setup_failed_nodes, max_workers, result,
                   injected, invoked, out, summary, effects>>

\* The progress line printed after the call it announces.
SeqEvents_call_first(k, node) ==
    <<Event("call", k, node), Event("progress", k, node)>>

\* print(progress k/N), then the call of the action.
SeqEvents(k, node) ==
    <<Event("progress", k, node), Event("call", k, node)>>

\* The sequential loop prints the progress line and calls the action.
SeqCall ==
    /\ pc = "seq"
    /\ i <= Len(nodes)
    /\ out' = out \o SeqEvents(i, nodes[i])
    /\ fut' = [fut EXCEPT ![nodes[i]] = "running"]
    /\ invoked' = [invoked EXCEPT ![nodes[i]] = @ + 1]
    /\ pc' = "seq_call"
    /\ UNCHANGED <<otherVars, configmap, args, nodes, local_script_path, i, setup_success_count,
                   setup_failed_nodes, success_count, max_workers, result, injected,
                   summary, effects>>

\* A loop that calls the action on the same node again until it succeeds.
AfterReturn_retry(k, ret) == IF ret = "True" THEN k + 1 ELSE k

\* The loop moves to the next node whatever the action returned.
AfterReturn(k, ret) == EnumerateNext(k)

\* The action returns to the sequential loop (an exception it raised would
\* leave main() through the finally clause).
SeqReturn(a) ==
    /\ pc = "seq_call"
    /\ LET n == nodes[i]
       IN /\ result' = [result EXCEPT ![n] = a.ret]
          /\ injected' = [injected EXCEPT ![n] = a.exc]
          /\ effects' = IF a.ran THEN effects \cup {"subprocess"} ELSE effects
          /\ fut' = [fut EXCEPT ![n] = "finished"]
          /\ IF a.ret = "Raise"
             THEN /\ pc' = IF args.stop THEN "aborted" ELSE "finally_raise"
                  /\ UNCHANGED <<i, success_count>>
             ELSE /\ success_count' = Count(success_count, a.ret)
                  /\ i' = AfterReturn(i, a.ret)
                  /\ pc' = IF i' > Len(nodes) THEN "summary" ELSE "seq"
    /\ UNCHANGED <<otherVars, configmap, args, nodes, local_script_path, setup_success_count,
                   setup_failed_nodes, max_workers, invoked, out, summary>>

\* A summary whose failed count is taken from the list before the nodes
\* whose setup failed were dropped.
Summary_failed_of_all(ns, count) ==
    [printed |-> TRUE, total |-> Len(ns), succeeded |-> count,
     failed |-> Len(ns) + Len(setup_failed_nodes) - count]

\* A summary whose total is taken from the list before the nodes whose
\* setup failed were dropped.
Summary_total_of_all(ns, count) ==
    [printed |-> TRUE, total |-> Len(ns) + Len(setup_failed_nodes),
     succeeded |-> count, failed |-> Len(ns) - count]

\* The summary block: total, succeeded, failed.
Summary(ns, count) ==
    [printed |-> TRUE, total |-> Len(ns), succeeded |-> count,
     failed |-> Len(ns) - count]

\* An as_completed loop that is left after the first collected future, and
\* an executor that is not waited for.
AsCompletedDone_first(ns) == \E n \in Range(ns) : fut[n] = "collected"

\* as_completed(future_to_node) is exhausted: every future was yielded.
AsCompletedDone(ns) == \A n \in Range(ns) : fut[n] = "collected"

\* The loop (or the with block, once every future is collected) is left and
\* the summary is printed.
PrintSummary ==
    /\ \/ pc = "summary"
       \/ /\ pc = "as_completed"
          /\ AsCompletedDone(nodes)
    /\ summary' = Summary(nodes, success_count)
    /\ pc' = IF args.stop THEN "done" ELSE "finally_done"
    /\ UNCHANGED <<otherVars, configmap, args, nodes, local_script_path, i, setup_success_count,
                   setup_failed_nodes, success_count, max_workers, fut, result,
                   injected, invoked, out, effects>>

\* finally: os.unlink(local_script_path) unless dry_run.
Cleanup ==
    /\ pc \in {"finally_done", "finally_exit", "finally_raise"}
    /\ effects' = IF local_script_path \notin {"None", "dummy"} /\ ~args.dry_run
                  THEN effects \cup {"unlink"} ELSE effects
    /\ pc' = CASE pc = "finally_done" -> "done"
               [] pc = "finally_exit" -> "exit_no_setup_nodes"
               [] pc = "finally_raise" -> "aborted"
    /\ UNCHANGED <<otherVars, configmap, args, nodes, local_script_path, i, setup_success_count,
                   setup_failed_nodes, success_count, max_workers, fut, result,
                   injected, invoked, out, summary>>

Next ==
    \/ ReadConfigMap
    \/ \E d \in {"tmp", "None"} : Download(d)
    \/ \E r \in SetupOutcomes : SetupNode(r)
    \/ SetupDone
    \/ Dispatch
    \/ Submit
    \/ WorkerStart
    \/ \E n \in InFlight : \E a \in ActionOutcomes : WorkerFinish(n, a)
    \/ \E n \in Range(nodes) : Collect(n)
    \/ SeqCall
    \/ \E a \in ActionOutcomes : SeqReturn(a)
    \/ PrintSummary
    \/ Cleanup

Spec == Init /\ [][Next]_vars

----------------------------------------------------------------------------
\* The parallel flows on more nodes than the pool has workers: a real run
\* (no --dry-run) whose download and script setup succeed, each remote
\* command of the action exiting 0 or 1.

PoolStopRuns == [rc : {0, 1}, exc : {"none"}]

PoolRetisRuns ==
    [rc : {0, 1},
     status : {st \in StatusOutputs : st.active_active /\ ~st.failed /\ ~st.exited
                                         /\ ~st.active_inactive},
     exc : {"none"}, exc_at : {"collect"}]

PoolOutcomes == OutcomesOver(PoolStopRuns, PoolRetisRuns)

PoolSetupOutcomes ==
    {setup_script_on_node(s, FALSE) :
        s \in {t \in SetupRuns : t.check = "executable" /\ t.exc = "none"}}

InitPool ==
    InitWith({[status |-> "200", data |-> Desc(k) \o <<"_master">>] :
                k \in (MaxWorkers + 1)..PoolNodes},
             [stop : BOOLEAN, parallel : {TRUE}, dry_run : {FALSE}])

NextPool ==
    \/ ReadConfigMap
    \/ Download("tmp")
    \/ \E r \in PoolSetupOutcomes : SetupNode(r)
    \/ SetupDone
    \/ Dispatch
    \/ Submit
    \/ WorkerStart
    \/ \E n \in InFlight : \E a \in PoolOutcomes[args.stop, args.dry_run] : WorkerFinish(n, a)
    \/ \E n \in Range(nodes) : Collect(n)
    \/ PrintSummary
    \/ Cleanup

SpecPool == InitPool /\ [][NextPool]_vars

----------------------------------------------------------------------------
\* run_retis_on_node called on one input

InitProbe ==
    /\ RetisInit({[status |-> "404", data |-> <<>>]},
                 {[stop |-> FALSE, parallel |-> FALSE, dry_run |-> FALSE]})
    /\ LogIdle
    /\ probe \in [done : {FALSE}, dry_run : BOOLEAN, input : RetisRuns,
                  output : {RunOutcome("none", FALSE, "none", FALSE)}]

ProbeRun ==
    /\ ~probe.done
    /\ probe' = [probe EXCEPT !.done = TRUE,
                              !.output = run_retis_on_node(probe.input, probe.dry_run)]
    /\ UNCHANGED <<configmap, retisVars, logVars>>

NextProbe == ProbeRun

SpecProbe == InitProbe /\ [][NextProbe]_vars

----------------------------------------------------------------------------
\* openshift-ovn-kubernetes-log-debug.py

\* The most pods a list call answers with, and the worker nodes of the cluster.
MaxPods == 2
LogWorkers == 2

MasterName == "Master-0"

LogNodes == Names(LogWorkers) \cup {MasterName}

\* A node whose name is a YAML 1.1 boolean.
YesName == "yes"

\* The characters of a node name.
Spelling(n) ==
    IF n = MasterName THEN <<"M", "a", "s", "t", "e", "r", "-", "0">>
    ELSE IF n = YesName THEN <<"y", "e", "s">>
    ELSE <<"w", "o", "r", "k", "e", "r", "-">>
         \o <<ToString(CHOOSE k \in 1..LogWorkers : NodeName(k) = n)>>

UpperLetters ==
    <<"A", "B", "C", "D", "E", "F", "G", "H", "I", "J", "K", "L", "M",
      "N", "O", "P", "Q", "R", "S", "T", "U", "V", "W", "X", "Y", "Z">>

LowerLetters ==
    <<"a", "b", "c", "d", "e", "f", "g", "h", "i", "j", "k", "l", "m",
      "n", "o", "p", "q", "r", "s", "t", "u", "v", "w", "x", "y", "z">>

\* str.lower()
lower(chars) ==
    [j \in 1..Len(chars) |->
        IF \E u \in 1..Len(UpperLetters) : UpperLetters[u] = chars[j]
        THEN LowerLetters[CHOOSE u \in 1..Len(UpperLetters) : UpperLetters[u] = chars[j]]
        ELSE chars[j]]

\* sub in chars
Contains(sub, chars) ==
    \E k \in 0..(Len(chars) - Len(sub)) : SubSeq(chars, k + 1, k + Len(sub)) = sub

\* 'master' not in node.lower()
NotMaster(n) == ~Contains(<<"m", "a", "s", "t", "e", "r">>, lower(Spelling(n)))

\* The lists a Python set can be turned into: its elements in any order.
ListOf(S) == {l \in [1..Cardinality(S) -> S] : Range(l) = S}

\* A pod as list_pod_for_all_namespaces shows it: whether its name holds
\* pod_name_pattern, and its spec.node_name ("None" when not scheduled).
FilterPods == [matches : BOOLEAN, node : LogNodes \cup {"None"}]

\* A pod as list_namespaced_pod shows it: whether its name holds
\* 'ovnkube-node', and its spec.node_name.
NamespacePods == [ovnkube : BOOLEAN, node : LogNodes \cup {"None"}]

ListsOf(S) == UNION {[1..n -> S] : n \in 0..MaxPods}

\* The pods get_nodes_by_pod_filter takes a node from.
Matching(pods) == SelectSeq(pods, LAMBDA pod : pod.node # "None" /\ pod.matches)

\* get_nodes_by_pod_filter appending to a list instead of adding to a set.
get_nodes_by_pod_filter_list(pods) ==
    {[j \in 1..Len(Matching(pods)) |-> Matching(pods)[j].node]}

\* get_nodes_by_pod_filter: the lists it can return for the pods listed.
get_nodes_by_pod_filter(pods) ==
    ListOf({Matching(pods)[j].node : j \in 1..Len(Matching(pods))})

\* What get_nodes_by_pod_filter can return over the answers of the API, with
\* the number of matching scheduled pods the answer held.
PodFilterAnswers ==
    UNION {{[nodes |-> l, count |-> Len(Matching(pods)), resp |-> "200"] :
              l \in get_nodes_by_pod_filter(pods)} : pods \in ListsOf(FilterPods)}
    \cup {[nodes |-> <<>>, count |-> 0, resp |-> "500"]}

\* What get_all_node_names can return: the nodes of the cluster, or [] on
\* ApiException.
NodeNameAnswers ==
    UNION {{[nodes |-> l, count |-> 0, resp |-> "200"] : l \in ListOf(S)} :
             S \in SUBSET LogNodes}
    \cup {[nodes |-> <<>>, count |-> 0, resp |-> "500"]}

\* render_configmap_template: the keys of data in the text rendered, one
\* '  {{ node }}: |' per node that passes the test, then '  _master: |'.
render_configmap_template(ns) == SelectSeq(ns, NotMaster) \o <<"_master">>

\* The plain scalars yaml.safe_load resolves to a boolean (YAML 1.1).
YamlTrue == {"yes", "Yes", "YES", "true", "True", "TRUE", "on", "On", "ON"}

YamlFalse == {"no", "No", "NO", "false", "False", "FALSE", "off", "Off", "OFF"}

\* A key of the rendered text as the API server gets it: yaml.safe_load
\* resolves the unquoted key, and the request body is JSON, where the keys
\* True and False are "true" and "false".  Keys that are YAML numbers are
\* not modelled.
yaml_key(key) ==
    IF key \in YamlTrue THEN "true"
    ELSE IF key \in YamlFalse THEN "false"
    ELSE key

\* The keys of a dict built from a sequence of keys: each once, in the
\* order of first insertion.
DictKeys(keys) ==
    LET F[j \in 0..Len(keys)] ==
            IF j = 0 THEN <<>>
            ELSE IF \E k \in 1..(j - 1) : keys[k] = keys[j] THEN F[j - 1]
            ELSE Append(F[j - 1], keys[j])
    IN  F[Len(keys)]

\* main(): configmap_body = yaml.safe_load(configmap_yaml); the keys of its
\* data.
yaml_safe_load(keys) == DictKeys([j \in 1..Len(keys) |-> yaml_key(keys[j])])

\* The keys of configmap_body['data'] for the list nodes.
configmap_body(ns) == yaml_safe_load(render_configmap_template(ns))

\* revert_debug_logging's affected_nodes keeping every key.
revert_affected_nodes_all_keys(data) == data

\* revert_debug_logging's affected_nodes: the keys other than _master.
revert_affected_nodes(data) == SelectSeq(data, LAMBDA key : key # "_master")

\* restart_ovnkube_pods selecting the ovnkube-node pods of every node.
select_pods_any_node(pods, ns) ==
    SelectSeq([j \in 1..Len(pods) |-> [idx |-> j, node |-> pods[j].node,
                                       ovnkube |-> pods[j].ovnkube]],
              LAMBDA pod : pod.ovnkube)

\* restart_ovnkube_pods' pods_to_restart: pod idx of the answer is kept when
\* its name holds 'ovnkube-node' and its node is in the list.
select_pods(pods, ns) ==
    SelectSeq([j \in 1..Len(pods) |-> [idx |-> j, node |-> pods[j].node,
                                       ovnkube |-> pods[j].ovnkube]],
              LAMBDA pod : pod.ovnkube /\ pod.node \in ns)

NoPod == [idx |-> 0, node |-> "None", ovnkube |-> FALSE]

\* The pods of an answer of list_namespaced_pod that are ovnkube-node pods
\* on a node of S.
OvnkubeOn(pods, S) == {j \in 1..Len(pods) : pods[j].ovnkube /\ pods[j].node \in S}

\* The pods_to_restart restart_ovnkube_pods can select, by the nodes of its
\* list, over the answers of list_namespaced_pod, with the number of
\* ovnkube-node pods on those nodes the answer held.
ListPodsAnswers ==
    [S \in SUBSET LogNodes |->
        {[ptr |-> select_pods(pods, S), count |-> Cardinality(OvnkubeOn(pods, S))] :
            pods \in ListsOf(NamespacePods)}]

\* One API call: the method, the status of its answer ("200" when it did not
\* raise), the keys of the ConfigMap revert_debug_logging read, the count of
\* matching pods a list call was answered with, and the pod deleted.
Call(op, resp, keys, count, pod) ==
    [op |-> op, resp |-> resp, keys |-> keys, count |-> count, pod |-> pod]

ReadOps ==
    {"get_api_resources", "list_node", "list_pod_for_all_namespaces",
     "read_namespace", "read_namespaced_config_map", "list_namespaced_pod"}

Responses == {"200", "404", "500"}

LdTerminal ==
    ld_pc \in {"ld_done", "ld_raised", "exit_usage", "exit_no_connection",
               "exit_no_nodes_found"}

InitLog ==
    /\ RetisInit(ConfigMaps(0, LogWorkers),
                 {[stop |-> FALSE, parallel |-> FALSE, dry_run |-> FALSE]})
    /\ ld_args \in [revert : BOOLEAN, all_nodes : BOOLEAN, restart_pods : BOOLEAN,
                    dry_run : BOOLEAN]
    /\ ld_pc = "ld_start"
    /\ ld_nodes = <<>>
    /\ affected_nodes = <<>>
    /\ pods_to_restart = <<>>
    /\ ld_i = 0
    /\ api_calls = <<>>
    /\ probe = NoProbe

\* main(): --revert with --all-nodes exits 1.
LdStart ==
    /\ ld_pc = "ld_start"
    /\ ld_pc' = IF ld_args.revert /\ ld_args.all_nodes THEN "exit_usage" ELSE "connect"
    /\ UNCHANGED <<configmap, retisVars, probe, ld_args, ld_nodes, affected_nodes,
                   pods_to_restart, ld_i, api_calls>>

\* main(): core_v1.get_api_resources(); any exception returns.
LdConnect(resp) ==
    /\ ld_pc = "connect"
    /\ api_calls' = Append(api_calls, Call("get_api_resources", resp, <<>>, 0, NoPod))
    /\ ld_pc' = IF resp # "200" THEN "exit_no_connection"
                ELSE IF ld_args.revert THEN "revert_read" ELSE "get_nodes"
    /\ UNCHANGED <<configmap, retisVars, probe, ld_args, ld_nodes, affected_nodes,
                   pods_to_restart, ld_i>>

\* main(): nodes = get_nodes_by_pod_filter(...) or get_all_node_names(...);
\* if not nodes: return
LdGetNodes ==
    /\ ld_pc = "get_nodes"
    /\ \E a \in IF ld_args.all_nodes THEN NodeNameAnswers ELSE PodFilterAnswers :
          /\ api_calls' = Append(api_calls,
                                 Call(IF ld_args.all_nodes THEN "list_node"
                                      ELSE "list_pod_for_all_namespaces",
                                      a.resp, <<>>, a.count, NoPod))
          /\ ld_nodes' = a.nodes
          /\ ld_pc' = IF a.nodes = <<>> THEN "exit_no_nodes_found" ELSE "render"
    /\ UNCHANGED <<configmap, retisVars, probe, ld_args, affected_nodes,
                   pods_to_restart, ld_i>>

\* apply_configmap: if dry_run: return
apply_configmap_entry(dry_run) == IF dry_run THEN "after_apply" ELSE "read_namespace"

\* main(): render the template, parse it and call apply_configmap.
LdRender ==
    /\ ld_pc = "render"
    /\ ld_pc' = apply_configmap_entry(ld_args.dry_run)
    /\ UNCHANGED <<configmap, retisVars, probe, ld_args, ld_nodes, affected_nodes,
                   pods_to_restart, ld_i, api_calls>>

\* apply_configmap: read_namespace; 404 creates it, another error is raised.
LdReadNamespace(resp) ==
    /\ ld_pc = "read_namespace"
    /\ api_calls' = Append(api_calls, Call("read_namespace", resp, <<>>, 0, NoPod))
    /\ ld_pc' = IF resp = "200" THEN "read_cm"
                ELSE IF resp = "404" THEN "create_namespace" ELSE "ld_raised"
    /\ UNCHANGED <<configmap, retisVars, probe, ld_args, ld_nodes, affected_nodes,
                   pods_to_restart, ld_i>>

\* apply_configmap: create_namespace, in the except clause.
LdCreateNamespace(resp) ==
    /\ ld_pc = "create_namespace"
    /\ api_calls' = Append(api_calls, Call("create_namespace", resp, <<>>, 0, NoPod))
    /\ ld_pc' = IF resp = "200" THEN "read_cm" ELSE "ld_raised"
    /\ UNCHANGED <<configmap, retisVars, probe, ld_args, ld_nodes, affected_nodes,
                   pods_to_restart, ld_i>>

\* apply_configmap's except clause of the try block that holds the read and
\* the replace: 404 creates the ConfigMap, another error is raised.
apply_except(status) == IF status = "404" THEN "create" ELSE "ld_raised"

\* apply_configmap: read_namespaced_config_map.
LdReadConfigMap ==
    /\ ld_pc = "read_cm"
    /\ api_calls' = Append(api_calls, Call("read_namespaced_config_map", configmap.status,
                                           <<>>, 0, NoPod))
    /\ ld_pc' = IF configmap.status = "200" THEN "replace"
                ELSE apply_except(configmap.status)
    /\ UNCHANGED <<configmap, retisVars, probe, ld_args, ld_nodes, affected_nodes,
                   pods_to_restart, ld_i>>

\* apply_configmap: replace_namespaced_config_map, in the same try block; it
\* answers 404 when the ConfigMap is gone since the read.
LdReplace(resp) ==
    /\ ld_pc = "replace"
    /\ api_calls' = Append(api_calls, Call("replace_namespaced_config_map", resp,
                                           <<>>, 0, NoPod))
    /\ IF resp = "200"
       THEN /\ configmap' = [status |-> "200", data |-> configmap_body(ld_nodes)]
            /\ ld_pc' = "after_apply"
       ELSE /\ configmap' = IF resp = "404" THEN [status |-> "404", data |-> <<>>]
                            ELSE configmap
            /\ ld_pc' = apply_except(resp)
    /\ UNCHANGED <<retisVars, probe, ld_args, ld_nodes, affected_nodes,
                   pods_to_restart, ld_i>>

\* apply_configmap: create_namespaced_config_map, in the except clause.
LdCreate(resp) ==
    /\ ld_pc = "create"
    /\ api_calls' = Append(api_calls, Call("create_namespaced_config_map", resp,
                                           <<>>, 0, NoPod))
    /\ IF resp = "200"
       THEN /\ configmap' = [status |-> "200", data |-> configmap_body(ld_nodes)]
            /\ ld_pc' = "after_apply"
       ELSE /\ ld_pc' = "ld_raised"
            /\ UNCHANGED configmap
    /\ UNCHANGED <<retisVars, probe, ld_args, ld_nodes, affected_nodes,
                   pods_to_restart, ld_i>>

\* main(): if args.restart_pods: restart_ovnkube_pods(..., nodes, ...)
LdAfterApply ==
    /\ ld_pc = "after_apply"
    /\ ld_pc' = IF ld_args.restart_pods THEN "restart_list" ELSE "ld_done"
    /\ UNCHANGED <<configmap, retisVars, probe, ld_args, ld_nodes, affected_nodes,
                   pods_to_restart, ld_i, api_calls>>

\* restart_ovnkube_pods deleting the pods with dry_run too.
restart_after_list_no_dry_run(ptr, dry_run) ==
    IF ptr = <<>> THEN "ld_done" ELSE "delete_pods"

\* restart_ovnkube_pods: if not pods_to_restart: return; if dry_run: return
restart_after_list(ptr, dry_run) ==
    IF ptr = <<>> THEN "ld_done"
    ELSE IF dry_run THEN "ld_done" ELSE "delete_pods"

\* The list restart_ovnkube_pods is called with.
RestartNodes == IF ld_args.revert THEN affected_nodes ELSE ld_nodes

\* restart_ovnkube_pods: list_namespaced_pod and the selection of the pods
\* over the answers it can get; an ApiException is raised again.
LdListPods(resp) ==
    /\ ld_pc = "restart_list"
    /\ IF resp # "200"
       THEN /\ api_calls' = Append(api_calls,
                                   Call("list_namespaced_pod", resp, <<>>, 0, NoPod))
            /\ ld_pc' = "ld_raised"
            /\ UNCHANGED <<pods_to_restart, ld_i>>
       ELSE /\ \E a \in ListPodsAnswers[Range(RestartNodes)] :
                 /\ api_calls' = Append(api_calls,
                                        Call("list_namespaced_pod", resp, <<>>,
                                             a.count, NoPod))
                 /\ pods_to_restart' = a.ptr
                 /\ ld_pc' = restart_after_list(a.ptr, ld_args.dry_run)
            /\ ld_i' = 1
    /\ UNCHANGED <<configmap, retisVars, probe, ld_args, ld_nodes, affected_nodes>>

\* restart_ovnkube_pods: delete_namespaced_pod of the next pod; an
\* ApiException is printed and the loop goes on.
LdDeletePod(resp) ==
    /\ ld_pc = "delete_pods"
    /\ ld_i <= Len(pods_to_restart)
    /\ api_calls' = Append(api_calls, Call("delete_namespaced_pod", resp, <<>>, 0,
                                           pods_to_restart[ld_i]))
    /\ ld_i' = ld_i + 1
    /\ ld_pc' = IF ld_i' > Len(pods_to_restart) THEN "ld_done" ELSE "delete_pods"
    /\ UNCHANGED <<configmap, retisVars, probe, ld_args, ld_nodes, affected_nodes,
                   pods_to_restart>>

\* revert_debug_logging going on to the delete when the read answers 404.
revert_after_read_404_found(status) ==
    IF status = "500" THEN "ld_raised" ELSE "revert_delete"

\* revert_debug_logging after the read: 404 returns, another error is raised.
revert_after_read(status) ==
    IF status = "404" THEN "ld_done"
    ELSE IF status = "500" THEN "ld_raised" ELSE "revert_delete"

\* revert_debug_logging: read_namespaced_config_map and affected_nodes.
LdRevertRead ==
    /\ ld_pc = "revert_read"
    /\ api_calls' = Append(api_calls, Call("read_namespaced_config_map", configmap.status,
                                           configmap.data, 0, NoPod))
    /\ ld_pc' = revert_after_read(configmap.status)
    /\ affected_nodes' = IF ld_pc' = "revert_delete"
                         THEN revert_affected_nodes(configmap.data) ELSE affected_nodes
    /\ UNCHANGED <<configmap, retisVars, probe, ld_args, ld_nodes, pods_to_restart, ld_i>>

\* revert_debug_logging restarting the pods although the delete raised.
revert_after_delete_ignore_error(resp, restart_pods, affected) ==
    IF restart_pods /\ affected # <<>> THEN "restart_list" ELSE "ld_done"

\* revert_debug_logging after the delete: an error is raised again; else
\* if restart_pods and affected_nodes: restart_ovnkube_pods(...)
revert_after_delete(resp, restart_pods, affected) ==
    IF resp # "200" THEN "ld_raised"
    ELSE IF restart_pods /\ affected # <<>> THEN "restart_list" ELSE "ld_done"

\* revert_debug_logging: delete_namespaced_config_map unless dry_run.
LdRevertDelete(resp) ==
    /\ ld_pc = "revert_delete"
    /\ IF ld_args.dry_run
       THEN /\ ld_pc' = revert_after_delete("200", ld_args.restart_pods, affected_nodes)
            /\ UNCHANGED <<configmap, api_calls>>
       ELSE /\ api_calls' = Append(api_calls, Call("delete_namespaced_config_map", resp,
                                                   <<>>, 0, NoPod))
            /\ configmap' = IF resp = "500" THEN configmap
                            ELSE [status |-> "404", data |-> <<>>]
            /\ ld_pc' = revert_after_delete(resp, ld_args.restart_pods, affected_nodes)
    /\ UNCHANGED <<retisVars, probe, ld_args, ld_nodes, affected_nodes,
                   pods_to_restart, ld_i>>

\* Both scripts against one cluster: retis-collect-nodes.py reads the
\* ConfigMap once the other has ended.
NextLog ==
    \/ LdStart
    \/ \E resp \in {"200", "500"} : LdConnect(resp)
    \/ LdGetNodes
    \/ LdRender
    \/ \E resp \in Responses : LdReadNamespace(resp)
    \/ \E resp \in {"200", "500"} : LdCreateNamespace(resp)
    \/ LdReadConfigMap
    \/ \E resp \in Responses : LdReplace(resp)
    \/ \E resp \in {"200", "500"} : LdCreate(resp)
    \/ LdAfterApply
    \/ \E resp \in {"200", "500"} : LdListPods(resp)
    \/ \E resp \in {"200", "500"} : LdDeletePod(resp)
    \/ LdRevertRead
    \/ \E resp \in Responses : LdRevertDelete(resp)
    \/ LdTerminal /\ ReadConfigMap

SpecLog == InitLog /\ [][NextLog]_vars

----------------------------------------------------------------------------
\* The round trip of a node list: apply_configmap creates the ConfigMap
\* rendered for it and retis-collect-nodes.py reads the nodes back.

\* The longest node list.
MaxList == 3

RoundTripNodes == LogNodes \cup {YesName}

InitRoundTrip ==
    /\ RetisInit({[status |-> "404", data |-> <<>>]},
                 {[stop |-> FALSE, parallel |-> FALSE, dry_run |-> FALSE]})
    /\ ld_args = [revert |-> FALSE, all_nodes |-> TRUE, restart_pods |-> FALSE,
                  dry_run |-> FALSE]
    /\ ld_pc = "create"
    /\ ld_nodes \in UNION {[1..n -> RoundTripNodes] : n \in 0..MaxList}
    /\ affected_nodes = <<>>
    /\ pods_to_restart = <<>>
    /\ ld_i = 0
    /\ api_calls = <<>>
    /\ probe = NoProbe

NextRoundTrip ==
    \/ \E resp \in {"200", "500"} : LdCreate(resp)
    \/ LdAfterApply
    \/ LdTerminal /\ ReadConfigMap

SpecRoundTrip == InitRoundTrip /\ [][NextRoundTrip]_vars

----------------------------------------------------------------------------
\* Properties

Terminal ==
    pc \in {"done", "exit_no_nodes", "exit_download_failed", "exit_no_setup_nodes",
            "raised", "aborted"}

\* The node keys of the ConfigMap, in key order.
ConfigMapNodes == SelectSeq(configmap.data, LAMBDA key : key # "_master")

Succeeded == {n \in Range(nodes) : result[n] = "True"}

NotSucceeded == {n \in Range(nodes) : result[n] # "True"}

Raised == {n \in Range(nodes) : injected[n] # "none"}

\* C1: the failed count of the summary is the number of dispatched nodes
\* whose action did not return success, in the sequential and in the
\* parallel run, in the stop and in the collection flow.
C1_FailedCount ==
    summary.printed => summary.failed = Cardinality(NotSucceeded)

C1_Witness ==
    /\ summary.printed
    /\ args.parallel
    /\ summary.failed >= 2
    /\ summary.succeeded >= 1
    /\ setup_failed_nodes # <<>>

\* C2: in parallel mode success_count is at every moment the number of
\* collected futures that returned True, and the succeeded count of the
\* summary is the number of nodes whose action returned True, whatever the
\* order in which the workers finish.
C2_ParallelCount ==
    args.parallel =>
        /\ success_count =
             Cardinality({n \in Range(nodes) : fut[n] = "collected" /\ result[n] = "True"})
        /\ summary.printed => summary.succeeded = Cardinality(Succeeded)

\* The last submitted node was collected first, before the first node
\* finished, and both returned True.
C2_Witness ==
    /\ args.parallel
    /\ pc = "as_completed"
    /\ Len(nodes) > MaxWorkers
    /\ fut[nodes[Len(nodes)]] = "collected"
    /\ result[nodes[Len(nodes)]] = "True"
    /\ fut[nodes[1]] = "running"
    /\ success_count >= 2
    /\ \E n \in Range(nodes) : fut[n] = "collected" /\ result[n] = "False"

\* C3: in parallel mode at most min(len(nodes), 5) actions are in flight.
C3_InFlightBound ==
    args.parallel => Cardinality(InFlight) <= Min(Len(nodes), MaxWorkers)

\* Five actions in flight while a submitted node waits for a worker.
C3_Witness ==
    /\ args.parallel
    /\ Cardinality(InFlight) = MaxWorkers
    /\ Pending # {}

\* C4: an exception raised in a node's action makes that node a failure and
\* nothing else: the run is not aborted, it can go on until the summary, and
\* at the summary every node was invoked and counted by its own outcome.
C4_ExceptionContained ==
    /\ \A n \in Raised : result[n] = "False"
    /\ Raised # {} =>
        /\ pc \notin {"aborted", "finally_raise"}
        /\ ~Terminal => ENABLED Next
        /\ Terminal =>
            /\ summary.printed
            /\ \A m \in Range(nodes) : invoked[m] = 1 /\ result[m] \in {"True", "False"}
            /\ summary.succeeded = Cardinality(Succeeded)
            /\ summary.failed = Cardinality(NotSucceeded)

C4_Witness ==
    /\ pc = "done"
    /\ ~args.parallel
    /\ Len(nodes) >= 3
    /\ injected[nodes[1]] = "Exception"
    /\ injected[nodes[2]] = "TimeoutExpired"
    /\ result[nodes[3]] = "True"
    /\ summary.succeeded = 1

\* C5: with --dry-run nothing is executed (no subprocess, no download, no
\* unlink), and a run on a non-empty node set ends with a summary whose
\* total is the number of nodes read from the ConfigMap.
C5_DryRun ==
    args.dry_run =>
        /\ effects = {}
        /\ pc \notin {"exit_download_failed", "exit_no_setup_nodes", "finally_exit",
                      "aborted", "finally_raise"}
        /\ pc = "done" =>
            /\ summary.printed
            /\ summary.total = Len(ConfigMapNodes)
            /\ summary.total > 0

C5_Witness ==
    /\ args.dry_run
    /\ ~args.stop
    /\ args.parallel
    /\ pc = "done"
    /\ summary.total >= 2

\* C6: the action is invoked at most once per node, never on a node that is
\* not dispatched, and exactly once on every dispatched node by the time
\* the summary is printed.
C6_ExactlyOnce ==
    /\ \A n \in AllNames : invoked[n] <= 1
    /\ \A n \in AllNames \ Range(nodes) : invoked[n] = 0
    /\ summary.printed => \A n \in Range(nodes) : invoked[n] = 1

\* A run whose first node failed and whose second node timed out.
C6_Witness ==
    /\ summary.printed
    /\ ~args.parallel
    /\ Len(nodes) >= 2
    /\ result[nodes[1]] = "False"
    /\ injected[nodes[2]] = "TimeoutExpired"
    /\ invoked[nodes[1]] = 1

\* C7: in every summary succeeded + failed = total and
\* 0 <= succeeded <= total.
C7_SummaryAddsUp ==
    summary.printed =>
        /\ summary.succeeded + summary.failed = summary.total
        /\ 0 <= summary.succeeded
        /\ summary.succeeded <= summary.total

C7_Witness ==
    /\ summary.printed
    /\ setup_failed_nodes # <<>>
    /\ summary.succeeded >= 1
    /\ summary.failed >= 1
    /\ Raised # {}

CallsOf(log) == SelectSeq(log, LAMBDA e : e.ev = "call")

LoopLog == SelectSeq(out, LAMBDA e : e.ev # "setup")

\* C8: in sequential mode the action is called on the nodes in the order
\* of the ConfigMap's keys, one call at a time, each call after the
\* previous one returned and right after its progress line.
C8_SequentialOrder ==
    ~args.parallel =>
        /\ SelectSeq(ConfigMapNodes, LAMBDA n : n \in Range(nodes)) = nodes
        /\ \A j \in 1..Len(CallsOf(out)) : CallsOf(out)[j] = Event("call", j, nodes[j])
        /\ \A j \in 1..Len(LoopLog) :
              LoopLog[j].ev = IF j % 2 = 1 THEN "progress" ELSE "call"
        /\ \A j \in 1..Len(LoopLog) :
              LoopLog[j].ev = "call" => LoopLog[j - 1] = Event("progress", LoopLog[j].idx, LoopLog[j].node)
        /\ Cardinality(InFlight) <= 1
        /\ \A j \in 2..Len(nodes) :
              invoked[nodes[j]] > 0 => fut[nodes[j - 1]] = "finished"

C8_Witness ==
    /\ ~args.parallel
    /\ pc = "seq_call"
    /\ i = 3
    /\ Len(CallsOf(out)) = 3
    /\ result[nodes[1]] = "False"

\* C9 as stated: every run on a non-empty node set ends with the summary.
C9_AlwaysSummary ==
    (Terminal /\ pc # "raised" /\ ConfigMapNodes # <<>>) => summary.printed

\* C9 as amended: a run on a non-empty node set ends with the summary, also
\* when every action fails, unless the script download failed or the script
\* setup failed on every node (a real collection run), which end the run
\* before any action; until it ends the run can always go on.
C9_SummaryUnlessSetupExit ==
    (pc # "start" /\ configmap.status # "500" /\ ConfigMapNodes # <<>>) =>
        /\ ~Terminal => ENABLED Next
        /\ Terminal =>
            /\ pc \in {"done", "exit_download_failed", "exit_no_setup_nodes"}
            /\ summary.printed <=> pc = "done"
            /\ pc = "exit_download_failed" =>
                 ~args.stop /\ ~args.dry_run /\ local_script_path = "None"
            /\ pc = "exit_no_setup_nodes" =>
                 /\ ~args.stop /\ ~args.dry_run
                 /\ setup_failed_nodes = ConfigMapNodes
                 /\ \A n \in AllNames : invoked[n] = 0

\* Every node failed and the summary was printed.
C9_Witness ==
    /\ pc = "done"
    /\ summary.printed
    /\ summary.total >= 2
    /\ summary.succeeded = 0

\* C10: when the ConfigMap is missing, has no data or only the _master key,
\* the run ends at "No nodes found" without an exception, and nothing was
\* downloaded, set up, invoked or printed as a summary.
C10_EmptyNodeSet ==
    (pc # "start" /\ configmap.status # "500" /\ ConfigMapNodes = <<>>) =>
        /\ pc = "exit_no_nodes"
        /\ nodes = <<>>
        /\ effects = {}
        /\ out = <<>>
        /\ local_script_path = "None"
        /\ ~summary.printed
        /\ \A n \in AllNames : invoked[n] = 0 /\ fut[n] = "none"

C10_Witness ==
    /\ pc = "exit_no_nodes"
    /\ configmap.status = "200"
    /\ configmap.data = <<"_master">>

TimedOut == {n \in Range(nodes) : injected[n] = "TimeoutExpired"}

\* Every setup command that times out makes setup_script_on_node return
\* False.
SetupTimeoutFails ==
    \A s \in SetupRuns :
        s.exc = "TimeoutExpired" => setup_script_on_node(s, FALSE).ret = "False"

\* C11: a remote call that times out makes its node's action (or setup)
\* return failure and nothing else: the run is not aborted and can go on,
\* the setup loop goes on to the next node, and at the end every dispatched
\* node was invoked once and is counted by its own outcome.
C11_TimeoutContained ==
    /\ SetupTimeoutFails
    /\ \A n \in TimedOut : result[n] = "False"
    /\ pc = "setup" => Len(setup_failed_nodes) + setup_success_count = i - 1
    /\ TimedOut # {} =>
        /\ pc \notin {"aborted", "finally_raise"}
        /\ ~Terminal => ENABLED Next
        /\ \A m \in Range(nodes) \ TimedOut :
              fut[m] \in {"finished", "collected"} => result[m] \in {"True", "False"}
        /\ Terminal =>
            /\ summary.printed
            /\ \A m \in Range(nodes) : invoked[m] = 1
            /\ summary.failed = Cardinality(NotSucceeded)
            /\ summary.succeeded = summary.total - Cardinality(NotSucceeded)

\* A parallel run whose first node timed out and whose other nodes were all
\* processed, the second and the last returning True.
C11_Witness ==
    /\ args.parallel
    /\ pc = "done"
    /\ Len(nodes) >= 3
    /\ injected[nodes[1]] = "TimeoutExpired"
    /\ result[nodes[2]] = "True"
    /\ result[nodes[Len(nodes)]] = "True"
    /\ summary.failed = 1

SetupLog == SelectSeq(out, LAMBDA e : e.ev = "setup")

\* C16: in a real collection run the script setup is attempted on every
\* node of the ConfigMap, in order, before the first collection action
\* starts (also with --parallel); the action is invoked only on nodes whose
\* setup returned success, and the summary total counts only those.
C16_SetupBeforeCollection ==
    (~args.stop /\ ~args.dry_run) =>
        /\ \A j \in 1..Len(out) :
              out[j].ev = "setup" => \A k \in 1..j : out[k].ev = "setup"
        /\ \A j \in 1..Len(SetupLog) : SetupLog[j] = Event("setup", j, ConfigMapNodes[j])
        /\ CallsOf(out) # <<>> => Len(SetupLog) = Len(ConfigMapNodes)
        /\ \A n \in AllNames :
              invoked[n] > 0 => n \in Range(ConfigMapNodes) \ Range(setup_failed_nodes)
        /\ summary.printed =>
              /\ summary.total = Len(ConfigMapNodes) - Len(setup_failed_nodes)
              /\ summary.total = setup_success_count
              /\ Range(nodes) = Range(ConfigMapNodes) \ Range(setup_failed_nodes)

C16_Witness ==
    /\ ~args.stop
    /\ ~args.dry_run
    /\ args.parallel
    /\ summary.printed
    /\ Len(setup_failed_nodes) = 2
    /\ summary.total = 2

\* C17: in parallel mode the summary is printed only when every submitted
\* task has completed and been collected: none is pending or in flight.
C17_SummaryAfterAll ==
    (args.parallel /\ summary.printed) =>
        /\ InFlight = {}
        /\ Pending = {}
        /\ \A n \in Range(nodes) : fut[n] = "collected" /\ result[n] # "none"

\* The summary of a run on more nodes than workers.
C17_Witness ==
    /\ args.parallel
    /\ summary.printed
    /\ Len(nodes) > MaxWorkers
    /\ summary.succeeded >= 1
    /\ summary.failed >= 1

----------------------------------------------------------------------------
\* Properties of openshift-ovn-kubernetes-log-debug.py

\* The positions of the calls of one method in api_calls.
CallsWith(op) == {j \in 1..Len(api_calls) : api_calls[j].op = op}

Issued(op) == CallsWith(op) # {}

\* The answer to the only call of a method.
AnswerOf(op) == api_calls[CHOOSE j \in CallsWith(op) : TRUE]

NoDuplicates(s) == Cardinality(Range(s)) = Len(s)

OnlyReads == \A j \in 1..Len(api_calls) : api_calls[j].op \in ReadOps

\* C12: _master is never a node: the node list retis-collect-nodes.py gets
\* from the ConfigMap and the affected_nodes of revert_debug_logging are the
\* keys read without _master, and no pod is deleted for a node _master.
C12_NoMasterNode ==
    /\ "_master" \notin Range(nodes)
    /\ "_master" \notin Range(affected_nodes)
    /\ ld_args.revert /\ ld_pc \in {"revert_delete", "restart_list", "delete_pods"} =>
          Range(affected_nodes)
              = Range(AnswerOf("read_namespaced_config_map").keys) \ {"_master"}
    /\ \A j \in CallsWith("delete_namespaced_pod") :
          api_calls[j].pod.node # "_master"
    /\ ld_args.revert =>
          \A j \in CallsWith("delete_namespaced_pod") :
              api_calls[j].pod.node \in Range(affected_nodes)

\* Both scripts have read a ConfigMap that holds _master and node keys.
C12_Witness ==
    /\ ld_args.revert
    /\ Issued("read_namespaced_config_map")
    /\ "_master" \in Range(AnswerOf("read_namespaced_config_map").keys)
    /\ affected_nodes # <<>>
    /\ "_master" \in Range(configmap.data)
    /\ nodes # <<>>

\* C13: a node is in a node list at most once: in the list of
\* get_nodes_by_pod_filter however many matching pods run on it, and in the
\* lists taken from the keys of the ConfigMap.
C13_UniqueNodes ==
    /\ NoDuplicates(ld_nodes)
    /\ NoDuplicates(nodes)
    /\ NoDuplicates(affected_nodes)

\* Two matching pods on one node, which is then the one key retis reads.
C13_Witness ==
    /\ Issued("list_pod_for_all_namespaces")
    /\ AnswerOf("list_pod_for_all_namespaces").count = 2
    /\ Len(ld_nodes) = 1
    /\ nodes = ld_nodes

\* C14: with --dry-run the script issues only read and list calls, in the
\* apply and in the revert flow, with or without --restart-pods.
C14_DryRunReadOnly == ld_args.dry_run => OnlyReads

\* A dry run with --restart-pods that found pods to restart has ended.
C14_Witness ==
    /\ ld_args.dry_run
    /\ ld_args.restart_pods
    /\ pods_to_restart # <<>>
    /\ ld_pc = "ld_done"

\* C15: when the read of revert_debug_logging answers 404 it returns
\* normally having issued no other call, with restart_pods too; when the
\* read raises another error, the error is raised and nothing is deleted.
C15_RevertNotFound ==
    ld_args.revert /\ Issued("read_namespaced_config_map") =>
        LET read == AnswerOf("read_namespaced_config_map") IN
        /\ read.resp = "404" =>
              /\ ld_pc = "ld_done"
              /\ api_calls[Len(api_calls)] = read
              /\ OnlyReads
        /\ read.resp = "500" =>
              /\ ld_pc = "ld_raised"
              /\ api_calls[Len(api_calls)] = read
              /\ OnlyReads

\* revert --restart-pods found no ConfigMap.
C15_Witness ==
    /\ ld_args.revert
    /\ ld_args.restart_pods
    /\ ~ld_args.dry_run
    /\ Issued("read_namespaced_config_map")
    /\ AnswerOf("read_namespaced_config_map").resp = "404"
    /\ ld_pc = "ld_done"

\* C18: run_retis_on_node without dry_run returns True exactly when the
\* collection command exits 0, no call raises, the status output holds no
\* 'failed' and holds 'active: active' or all of 'active: inactive',
\* 'exited' and 'code=exited, status=0'; it issues no status check when the
\* collection command exits non-zero.
C18_SuccessIff ==
    probe.done /\ ~probe.dry_run =>
        LET r == probe.input
            st == r.status
            raises == r.exc # "none" /\ (r.exc_at = "collect" \/ r.rc = 0)
        IN  /\ probe.output.ret = "True" <=>
                  /\ r.rc = 0
                  /\ ~raises
                  /\ ~st.failed
                  /\ \/ st.active_active
                     \/ st.active_inactive /\ st.exited /\ st.status0
            /\ probe.output.ret \in {"True", "False"}
            /\ r.rc # 0 => ~probe.output.status_checked
            /\ r.rc = 0 /\ ~(r.exc # "none" /\ r.exc_at = "collect") =>
                  probe.output.status_checked

\* A collection that exited and completed successfully.
C18_Witness ==
    /\ probe.done
    /\ ~probe.dry_run
    /\ probe.output.ret = "True"
    /\ ~probe.input.status.active_active
    /\ probe.input.status.status0

\* C19: an apply_configmap without dry_run issues one kind of ConfigMap
\* write: replace exactly when the existence check found the ConfigMap,
\* create exactly when it answered 404, never both; on another error it
\* writes nothing and raises; it creates the namespace only when
\* read_namespace answered 404.
C19_OneWriteKind ==
    ~ld_args.revert /\ ~ld_args.dry_run =>
        /\ ~(Issued("replace_namespaced_config_map")
             /\ Issued("create_namespaced_config_map"))
        /\ Issued("replace_namespaced_config_map") =>
              AnswerOf("read_namespaced_config_map").resp = "200"
        /\ Issued("create_namespaced_config_map") =>
              AnswerOf("read_namespaced_config_map").resp = "404"
        /\ ld_pc \in {"after_apply", "restart_list", "delete_pods", "ld_done"}
           /\ Issued("read_namespaced_config_map") =>
              /\ AnswerOf("read_namespaced_config_map").resp = "200" =>
                    Issued("replace_namespaced_config_map")
              /\ AnswerOf("read_namespaced_config_map").resp = "404" =>
                    Issued("create_namespaced_config_map")
        /\ Issued("read_namespaced_config_map")
           /\ AnswerOf("read_namespaced_config_map").resp = "500" =>
              /\ ld_pc = "ld_raised"
              /\ ~Issued("replace_namespaced_config_map")
              /\ ~Issued("create_namespaced_config_map")
        /\ Issued("create_namespace") => AnswerOf("read_namespace").resp = "404"

\* C20: in a revert without dry_run a pod is deleted only after the
\* ConfigMap delete has succeeded, none when that delete raises, and only
\* on a node that was a key of the ConfigMap read at the start.
C20_DeleteBeforeRestart ==
    ld_args.revert /\ ~ld_args.dry_run =>
        /\ \A j \in CallsWith("delete_namespaced_pod") :
              /\ \E k \in 1..(j - 1) :
                    /\ api_calls[k].op = "delete_namespaced_config_map"
                    /\ api_calls[k].resp = "200"
              /\ api_calls[j].pod.node
                    \in Range(AnswerOf("read_namespaced_config_map").keys)
        /\ Issued("delete_namespaced_config_map")
           /\ AnswerOf("delete_namespaced_config_map").resp # "200" =>
              /\ ~Issued("delete_namespaced_pod")
              /\ ~Issued("list_namespaced_pod")
              /\ ld_pc = "ld_raised"

\* A revert that deleted the ConfigMap and then a pod.
C20_Witness ==
    /\ ld_args.revert
    /\ ~ld_args.dry_run
    /\ Issued("delete_namespaced_config_map")
    /\ Issued("delete_namespaced_pod")
    /\ ld_pc = "ld_done"

\* C21: a restart_ovnkube_pods without dry_run attempts one deletion for
\* each pod of the namespace whose name holds 'ovnkube-node' and whose node
\* is in the list, and none for another pod; an ApiException on one
\* deletion does not stop the attempts for the pods that follow.
C21_DeleteEachOnce ==
    /\ ~ld_args.dry_run
    /\ Issued("list_namespaced_pod")
    /\ AnswerOf("list_namespaced_pod").resp = "200"
    =>  LET deleted == CallsWith("delete_namespaced_pod") IN
        /\ \A j \in deleted :
              /\ api_calls[j].pod.ovnkube
              /\ api_calls[j].pod.node \in Range(RestartNodes)
        /\ \A j, k \in deleted : j # k => api_calls[j].pod.idx # api_calls[k].pod.idx
        /\ Cardinality(deleted) <= AnswerOf("list_namespaced_pod").count
        /\ ld_pc \in {"delete_pods", "ld_done"}
        /\ ld_pc = "ld_done" =>
              Cardinality(deleted) = AnswerOf("list_namespaced_pod").count

\* A deletion raised and the one after it was attempted.
C21_Witness ==
    /\ ~ld_args.dry_run
    /\ ld_pc = "ld_done"
    /\ \E j, k \in CallsWith("delete_namespaced_pod") :
          /\ j < k
          /\ api_calls[j].resp = "500"

\* The nodes of the list given to render_configmap_template whose
\* lowercased name does not hold 'master'.
NonMasterInput == {n \in Range(ld_nodes) : NotMaster(n)}

\* C22: for every node list, the ConfigMap rendered holds the key _master,
\* holds a key for a node exactly when the node's lowercased name does not
\* hold 'master', and get_nodes_from_configmap reads back from it exactly
\* the set of those nodes (none, hence 'no nodes', when there is no such
\* node).
C22_RoundTrip ==
    /\ Issued("create_namespaced_config_map")
    /\ AnswerOf("create_namespaced_config_map").resp = "200"
    =>  /\ "_master" \in Range(configmap.data)
        /\ \A n \in Range(ld_nodes) : n \in Range(configmap.data) <=> NotMaster(n)
        /\ pc # "start" =>
              /\ Range(nodes) = NonMasterInput
              /\ NonMasterInput = {} <=> pc = "exit_no_nodes"

====
